---- MODULE Spec2Model ----
(***************************************************************************)
(* A2AServer (src/a2a_protocol/server.py): the JSON-RPC dispatcher of the  *)
(* A2A protocol.  One coroutine per inbound payload, interleaved by the    *)
(* asyncio event loop: a coroutine runs without interruption between two   *)
(* suspension points, so every action below is one such uninterrupted run. *)
(* The only suspension that lets other payloads in is the await of the     *)
(* registered handler (lines 95 and 118).                                  *)
(*                                                                         *)
(* MessageValidator (a2a_protocol/validation.py) is not among the sources: *)
(* its five entry points are modelled from section 6 of the specification  *)
(* as deterministic functions of their arguments.                          *)
(*                                                                         *)
(* PuzzlePiecesIngestion.insert_data_batch (src/data/postgis/ingestion.py) *)
(* is a second, independent program: a synchronous loop over the batches   *)
(* of a data frame, one action per turn of the loop.  Its database         *)
(* connection (postgis/connection.py) is not among the sources: a call of  *)
(* executemany, commit or rollback either has its transactional effect or  *)
(* raises.  Each program has its own specification and leaves the          *)
(* variables of the other alone.                                           *)
(***************************************************************************)
EXTENDS Integers, Sequences, FiniteSets, TLC

(* ---------------- bounds ---------------- *)
MaxPayloads == 2
\* Rows of a data frame, and rows per batch.
MaxRows == 3
MaxBatchSize == 2
\* Rows of a CSV file handed to ingest_csv_file.
MaxCsvRows == 2

(* ---------------- universe of values ---------------- *)
Payloads == 1..MaxPayloads
\* Names that get registered, and the names payloads ask for: "ECHO" is
\* only ever registered, to have a second entry in the registry.
Names == {"PING", "ECHO"}
Requested == {"PING"}
Handlers == {"h1", "h2"}
Null == "null"
\* Ids: JSON null (Python None) is <<>>, the id of the t-th payload, when it
\* has one, is <<t>>: ids in flight are pairwise different.
NullId == <<>>
NoId == <<>>
IdOf(t) == <<t>>
\* Classes of params, by what the domain validator and the business-rule
\* checker do with them.
ParamClasses == {"valid", "bad_schema", "bad_rule", "crash_schema", "crash_rule"}
\* What a handler may return; "not_json" stands for a value json.dumps rejects.
Results == {"pong", "not_json"}
\* str(e) of what a handler may raise.
Failures == {"boom", "bang"}

\* The raw HTTP bodies the transport may deliver.  form "unreadable": the
\* body cannot be decoded as text; "crash": the envelope parser raises;
\* "malformed": the parser returns an envelope-level error object;
\* "ok": a JSON-RPC 2.0 request (id present) or notification (id absent).
RawPayloads(t) ==
    [form : {"unreadable", "crash", "malformed"}, method : {"PING"},
     params : {"valid"}, id : {NoId}]
    \cup [form : {"ok"}, method : Requested, params : ParamClasses,
          id : {IdOf(t), NoId}]

\* A missing value of a data frame (NaN) and a value that is there.
NaN == "nan"
Coordinates == {NaN, "12.5"}
\* The cleaned data frames insert_data_batch may be given: a row is known
\* by its position.
DataFrames ==
    UNION {[1..n -> [latitude : Coordinates, longitude : Coordinates]] :
             n \in 0..MaxRows}
\* str(e) of what a call on the database connection may raise.
DbFailures == {"connection lost", "deadlock detected"}

\* A2AServer
VARIABLES methods, registrations, req, pc, bg, ret, out, trace
\* insert_data_batch: its arguments df and batch_size, its locals i,
\* records_inserted and errors, what it logged, where it is (ipc), and the
\* database: the rows committed and the rows written in the open transaction.
VARIABLES df, batch_size, i, records_inserted, errors, log, ipc,
          committed, pending

\* ingest_csv_file: the file it is given, its result dictionary
\* (csv_result), the calls
\* of log_processing_result, the steps of the pipeline taken so far, and
\* where it is (ppc).
VARIABLES file, csv_result, plog, steps, ppc

server == <<methods, registrations, req, pc, bg, ret, out, trace>>
pipeline == <<file, csv_result, plog, steps, ppc>>
ingestion == <<df, batch_size, i, records_inserted, errors, log, ipc,
               committed, pending>>
vars == <<server, ingestion, pipeline>>

NoPayload == [form |-> "none", method |-> "PING", params |-> "valid", id |-> NoId]

(* ---------------- MessageValidator ---------------- *)
_create_error_response(code, message, data, id) ==
    [kind |-> "error", code |-> code, message |-> message, data |-> data,
     result |-> Null, id |-> id]

create_success_response(result, id) ==
    [kind |-> "success", code |-> 0, message |-> Null, data |-> Null,
     result |-> result, id |-> id]

\* validate_jsonrpc_message: classification of a readable raw body.
ParseRaises(raw) == raw.form = "crash"

validate_jsonrpc_message(raw) ==
    IF raw.form = "malformed"
    THEN [type |-> "JSONRPCErrorResponse", method |-> Null, params |-> Null,
          id |-> NullId]
    ELSE IF raw.id = NoId
    THEN [type |-> "JSONRPCNotification", method |-> raw.method,
          params |-> raw.params, id |-> NullId]
    ELSE [type |-> "JSONRPCRequest", method |-> raw.method,
          params |-> raw.params, id |-> raw.id]

EnvelopeError == _create_error_response(-32600, "Invalid Request", "invalid envelope", NullId)

\* validate_a2a_message(method, params): the domain message, NoMessage
\* (Python None) or an exception.
NoMessage == <<>>
ValidatorRaises(method, params) == params = "crash_schema"
validate_a2a_message(method, params) ==
    IF params = "bad_schema" THEN NoMessage ELSE <<method, params>>

\* validate_business_rules(message): a boolean or an exception.
RulesRaise(message) == message[2] = "crash_rule"
validate_business_rules(message) == message[2] = "valid"

(* ---------------- A2AServer: pure parts ---------------- *)
\* json.dumps(data) raises TypeError on a value it cannot encode.  Error
\* objects carry only strings, numbers and ids that came out of JSON.
Serializable(response) == response.result # "not_json"

\* _json_response: the HTTP response carrying the JSON text of data.
_json_response(data) == [status |-> 200, body |-> <<data>>]

\* Mutant: the default status of Response() instead of 204.
NoContent_Status200 == [status |-> 200, body |-> <<>>]

\* Response(status=204): no body.
NoContent == [status |-> 204, body |-> <<>>]

\* Mutant: the except clause lets the exception through.
OnException_Reraise(e) ==
    [pc |-> "raised", out |-> <<>>,
     events |-> <<<<"log", "error", "Error handling request">>>>]

\* The except clause of _handle_jsonrpc: what the coroutine does with an
\* exception e that reached it.
OnException(e) ==
    [pc |-> "done",
     out |-> <<_json_response(
                 _create_error_response(-32603, "Internal error", e, NullId))>>,
     events |-> <<<<"log", "error", "Error handling request">>>>]

\* Mutant: the response is encoded outside the try.
ReturnResponse_Unguarded(response) ==
    IF Serializable(response)
    THEN [pc |-> "done", out |-> <<_json_response(response)>>, events |-> <<>>]
    ELSE [pc |-> "raised", out |-> <<>>, events |-> <<>>]

\* return self._json_response(response.dict()), inside the try of
\* _handle_jsonrpc.
ReturnResponse(response) ==
    IF Serializable(response)
    THEN [pc |-> "done", out |-> <<_json_response(response)>>, events |-> <<>>]
    ELSE OnException("not JSON serializable")

\* Mutant: the id is dropped, as in the except clause of _handle_jsonrpc.
InternalError_NullId(e, msg_id) ==
    _create_error_response(-32603, "Internal error", e, NullId)

\* The except clause of _handle_request.
InternalError(e, msg_id) ==
    _create_error_response(-32603, "Internal error", e, msg_id)

\* f"Method '{method}' not found"
NotFoundText(method) ==
    IF method = "PING" THEN "Method 'PING' not found" ELSE "Method 'ECHO' not found"

\* Mutant: the code of "Invalid params" for an unknown method.
MethodNotFound_AsInvalidParams(method, msg_id) ==
    _create_error_response(-32602, "Invalid params", NotFoundText(method), msg_id)

MethodNotFound(method, msg_id) ==
    _create_error_response(-32601, "Method not found", NotFoundText(method), msg_id)

\* Mutant: a missing domain message reported as an invalid envelope.
InvalidParams_AsInvalidRequest(msg_id) ==
    _create_error_response(-32600, "Invalid Request", "Invalid A2A message parameters", msg_id)

InvalidParams(msg_id) ==
    _create_error_response(-32602, "Invalid params", "Invalid A2A message parameters", msg_id)

\* Mutant: the business-rule failure reported with the text of the schema failure.
BusinessRuleFailed_SameData(msg_id) ==
    _create_error_response(-32602, "Invalid params", "Invalid A2A message parameters", msg_id)

BusinessRuleFailed(msg_id) ==
    _create_error_response(-32602, "Invalid params", "Business rule validation failed", msg_id)

\* Events a payload's handling leaves behind: calls of the collaborators,
\* invocations of a handler, log records.
EvValidate(method, params) == <<"validate_a2a_message", method, params>>
EvRules(message) == <<"validate_business_rules", message[1], message[2]>>
EvInvoke(h, message) == <<"invoke", h, message[1], message[2]>>
EvLog(level, text) == <<"log", level, text>>

\* Mutant: the outcome of the business-rule check is remembered process-wide;
\* once some payload has been validated the check is skipped.
HandleRequestStart_RulesCached(rpc) ==
    LET method == rpc.method
        params == rpc.params
        msg_id == rpc.id
        a2a_message == validate_a2a_message(method, params)
        failed == EvLog("error", "Error executing method")
        cached == \E u \in Payloads : trace[u] # <<>>
    IN  IF method \notin DOMAIN methods
        THEN [returned |-> TRUE, response |-> MethodNotFound(method, msg_id),
              events |-> <<>>]
        ELSE IF ValidatorRaises(method, params)
        THEN [returned |-> TRUE,
              response |-> InternalError("validator failure", msg_id),
              events |-> <<EvValidate(method, params), failed>>]
        ELSE IF a2a_message = NoMessage
        THEN [returned |-> TRUE, response |-> InvalidParams(msg_id),
              events |-> <<EvValidate(method, params)>>]
        ELSE IF ~cached /\ RulesRaise(a2a_message)
        THEN [returned |-> TRUE,
              response |-> InternalError("rule checker failure", msg_id),
              events |-> <<EvValidate(method, params), EvRules(a2a_message), failed>>]
        ELSE IF ~cached /\ ~validate_business_rules(a2a_message)
        THEN [returned |-> TRUE, response |-> BusinessRuleFailed(msg_id),
              events |-> <<EvValidate(method, params), EvRules(a2a_message)>>]
        ELSE [returned |-> FALSE, response |-> InvalidParams(NullId),
              events |-> <<EvValidate(method, params), EvRules(a2a_message),
                           EvInvoke(methods[method], a2a_message)>>]

\* _handle_request up to its first suspension: either it returns a response
\* (returned = TRUE) or it has called the handler and awaits it.
HandleRequestStart(rpc) ==
    LET method == rpc.method
        params == rpc.params
        msg_id == rpc.id
        a2a_message == validate_a2a_message(method, params)
        failed == EvLog("error", "Error executing method")
    IN  IF method \notin DOMAIN methods
        THEN [returned |-> TRUE, response |-> MethodNotFound(method, msg_id),
              events |-> <<>>]
        ELSE IF ValidatorRaises(method, params)
        THEN [returned |-> TRUE,
              response |-> InternalError("validator failure", msg_id),
              events |-> <<EvValidate(method, params), failed>>]
        ELSE IF a2a_message = NoMessage
        THEN [returned |-> TRUE, response |-> InvalidParams(msg_id),
              events |-> <<EvValidate(method, params)>>]
        ELSE IF RulesRaise(a2a_message)
        THEN [returned |-> TRUE,
              response |-> InternalError("rule checker failure", msg_id),
              events |-> <<EvValidate(method, params), EvRules(a2a_message), failed>>]
        ELSE IF ~validate_business_rules(a2a_message)
        THEN [returned |-> TRUE, response |-> BusinessRuleFailed(msg_id),
              events |-> <<EvValidate(method, params), EvRules(a2a_message)>>]
        ELSE [returned |-> FALSE, response |-> InvalidParams(NullId),
              events |-> <<EvValidate(method, params), EvRules(a2a_message),
                           EvInvoke(methods[method], a2a_message)>>]

\* Mutant: the notification path tests the domain message only
\* (if a2a_message:), not the business rules.
HandleNotificationStart_NoRules(notification) ==
    LET method == notification.method
        params == notification.params
        a2a_message == validate_a2a_message(method, params)
        failed == EvLog("error", "Error handling notification")
        invalid == EvLog("warning", "Invalid notification parameters")
    IN  IF method \notin DOMAIN methods
        THEN [returned |-> TRUE,
              events |-> <<EvLog("warning", "Notification for unknown method")>>]
        ELSE IF ValidatorRaises(method, params)
        THEN [returned |-> TRUE, events |-> <<EvValidate(method, params), failed>>]
        ELSE IF a2a_message = NoMessage
        THEN [returned |-> TRUE, events |-> <<EvValidate(method, params), invalid>>]
        ELSE [returned |-> FALSE,
              events |-> <<EvValidate(method, params),
                           EvInvoke(methods[method], a2a_message)>>]

\* _handle_notification up to its first suspension: either it returns
\* (returned = TRUE) or it has called the handler and awaits it.
HandleNotificationStart(notification) ==
    LET method == notification.method
        params == notification.params
        a2a_message == validate_a2a_message(method, params)
        failed == EvLog("error", "Error handling notification")
        invalid == EvLog("warning", "Invalid notification parameters")
    IN  IF method \notin DOMAIN methods
        THEN [returned |-> TRUE,
              events |-> <<EvLog("warning", "Notification for unknown method")>>]
        ELSE IF ValidatorRaises(method, params)
        THEN [returned |-> TRUE, events |-> <<EvValidate(method, params), failed>>]
        ELSE IF a2a_message = NoMessage
        THEN [returned |-> TRUE, events |-> <<EvValidate(method, params), invalid>>]
        ELSE IF RulesRaise(a2a_message)
        THEN [returned |-> TRUE,
              events |-> <<EvValidate(method, params), EvRules(a2a_message), failed>>]
        ELSE IF ~validate_business_rules(a2a_message)
        THEN [returned |-> TRUE,
              events |-> <<EvValidate(method, params), EvRules(a2a_message), invalid>>]
        ELSE [returned |-> FALSE,
              events |-> <<EvValidate(method, params), EvRules(a2a_message),
                           EvInvoke(methods[method], a2a_message)>>]

(* ---------------- state ---------------- *)
\* No call of insert_data_batch: nothing to insert, the database empty.
NoIngestion ==
    /\ df = <<>>
    /\ batch_size = 1
    /\ i = 0
    /\ records_inserted = 0
    /\ errors = <<>>
    /\ log = <<>>
    /\ ipc = "returned"
    /\ committed = {}
    /\ pending = {}

\* The server after __init__ and before any payload.
NoTraffic ==
    /\ methods = <<>>
    /\ registrations = <<>>
    /\ req = [t \in Payloads |-> NoPayload]
    /\ pc = [t \in Payloads |-> "idle"]
    /\ bg = [t \in Payloads |-> "none"]
    /\ ret = [t \in Payloads |-> <<>>]
    /\ out = [t \in Payloads |-> <<>>]
    /\ trace = [t \in Payloads |-> <<>>]

\* The result dictionary ingest_csv_file starts from.
NoResult ==
    [success |-> FALSE, records_processed |-> 0, records_inserted |-> 0,
     errors |-> <<>>, quality_issues |-> <<>>]

\* A file that cannot be read: what ingest_csv_file is given when it is
\* not called at all.
NoFile == [readable |-> FALSE, columns |-> "all", rows |-> <<>>]

\* No call of ingest_csv_file.
NoPipeline ==
    /\ file = NoFile
    /\ csv_result = NoResult
    /\ plog = <<>>
    /\ steps = <<>>
    /\ ppc = "none"

Init == NoTraffic /\ NoIngestion /\ NoPipeline

\* Payloads are numbered in their order of arrival.
Arrives(t) == pc[t] = "idle" /\ (IF t = 1 THEN TRUE ELSE pc[t - 1] # "idle")

(* ---------------- register_method ---------------- *)
\* registrations is the history of the calls: for every name registered so
\* far, the handler passed by the latest call for that name.
Registered(calls, method_name, handler) ==
    [n \in DOMAIN calls \cup {method_name} |->
       IF n = method_name THEN handler ELSE calls[n]]

\* Mutant: an entry that exists is kept (dict.setdefault).
register_method_KeepFirst(method_name, handler) ==
    /\ methods' = IF method_name \in DOMAIN methods THEN methods
                  ELSE [n \in DOMAIN methods \cup {method_name} |->
                          IF n = method_name THEN handler ELSE methods[n]]
    /\ registrations' = Registered(registrations, method_name, handler)
    /\ UNCHANGED <<req, pc, bg, ret, out, trace, ingestion, pipeline>>

\* Mutant: the registry is replaced by the one new entry.
register_method_Replace(method_name, handler) ==
    /\ methods' = [n \in {method_name} |-> handler]
    /\ registrations' = Registered(registrations, method_name, handler)
    /\ UNCHANGED <<req, pc, bg, ret, out, trace, ingestion, pipeline>>

register_method(method_name, handler) ==
    /\ methods' = [n \in DOMAIN methods \cup {method_name} |->
                     IF n = method_name THEN handler ELSE methods[n]]
    /\ registrations' = Registered(registrations, method_name, handler)
    /\ UNCHANGED <<req, pc, bg, ret, out, trace, ingestion, pipeline>>

(* ---------------- _handle_health ---------------- *)
\* The health probe reads the registry and changes nothing: the names are
\* the keys of self.methods at the time of the call.
_handle_health ==
    _json_response([status |-> "healthy", methods |-> DOMAIN methods])

(* ---------------- _handle_jsonrpc ---------------- *)
\* await request.text() raises: straight to the except clause.
RecvUnreadable(t, raw) ==
    /\ Arrives(t)
    /\ raw.form = "unreadable"
    /\ req' = [req EXCEPT ![t] = raw]
    /\ pc' = [pc EXCEPT ![t] = OnException("unreadable body").pc]
    /\ out' = [out EXCEPT ![t] = OnException("unreadable body").out]
    /\ trace' = [trace EXCEPT ![t] = OnException("unreadable body").events]
    /\ UNCHANGED <<methods, registrations, bg, ret, ingestion, pipeline>>

\* validate_jsonrpc_message raises.
RecvParseRaises(t, raw) ==
    /\ Arrives(t)
    /\ raw.form # "unreadable"
    /\ ParseRaises(raw)
    /\ req' = [req EXCEPT ![t] = raw]
    /\ pc' = [pc EXCEPT ![t] = OnException("parser failure").pc]
    /\ out' = [out EXCEPT ![t] = OnException("parser failure").out]
    /\ trace' = [trace EXCEPT ![t] = OnException("parser failure").events]
    /\ UNCHANGED <<methods, registrations, bg, ret, ingestion, pipeline>>

\* Mutant: the envelope error is raised instead of returned, and the except
\* clause answers.
RecvEnvelopeError_Raised(t, raw) ==
    /\ Arrives(t)
    /\ raw.form # "unreadable"
    /\ ~ParseRaises(raw)
    /\ validate_jsonrpc_message(raw).type = "JSONRPCErrorResponse"
    /\ req' = [req EXCEPT ![t] = raw]
    /\ pc' = [pc EXCEPT ![t] = OnException("invalid envelope").pc]
    /\ out' = [out EXCEPT ![t] = OnException("invalid envelope").out]
    /\ trace' = [trace EXCEPT ![t] = OnException("invalid envelope").events]
    /\ UNCHANGED <<methods, registrations, bg, ret, ingestion, pipeline>>

\* The parser returned a JSONRPCErrorResponse: it is the response.
RecvEnvelopeError(t, raw) ==
    /\ Arrives(t)
    /\ raw.form # "unreadable"
    /\ ~ParseRaises(raw)
    /\ validate_jsonrpc_message(raw).type = "JSONRPCErrorResponse"
    /\ req' = [req EXCEPT ![t] = raw]
    /\ pc' = [pc EXCEPT ![t] = ReturnResponse(EnvelopeError).pc]
    /\ out' = [out EXCEPT ![t] = ReturnResponse(EnvelopeError).out]
    /\ trace' = [trace EXCEPT ![t] = ReturnResponse(EnvelopeError).events]
    /\ UNCHANGED <<methods, registrations, bg, ret, ingestion, pipeline>>

\* Mutant: _handle_notification is awaited instead of scheduled; 204 is
\* returned once it has ended.
RecvNotification_Awaited(t, raw) ==
    /\ Arrives(t)
    /\ raw.form # "unreadable"
    /\ ~ParseRaises(raw)
    /\ validate_jsonrpc_message(raw).type = "JSONRPCNotification"
    /\ LET r == HandleNotificationStart(validate_jsonrpc_message(raw))
       IN  /\ req' = [req EXCEPT ![t] = raw]
           /\ trace' = [trace EXCEPT ![t] = r.events]
           /\ bg' = [bg EXCEPT ![t] = IF r.returned THEN "done" ELSE "handler"]
           /\ pc' = [pc EXCEPT ![t] = "done"]
           /\ out' = [out EXCEPT ![t] = IF r.returned THEN <<NoContent>> ELSE <<>>]
    /\ UNCHANGED <<methods, registrations, ret, ingestion, pipeline>>

\* A notification: create_task schedules _handle_notification, and 204 is
\* returned without any suspension in between.
RecvNotification(t, raw) ==
    /\ Arrives(t)
    /\ raw.form # "unreadable"
    /\ ~ParseRaises(raw)
    /\ validate_jsonrpc_message(raw).type = "JSONRPCNotification"
    /\ req' = [req EXCEPT ![t] = raw]
    /\ bg' = [bg EXCEPT ![t] = "scheduled"]
    /\ pc' = [pc EXCEPT ![t] = "done"]
    /\ out' = [out EXCEPT ![t] = <<NoContent>>]
    /\ UNCHANGED <<methods, registrations, ret, trace, ingestion, pipeline>>

\* A request that _handle_request answers without reaching the handler.
RecvRequestReturns(t, raw) ==
    /\ Arrives(t)
    /\ raw.form # "unreadable"
    /\ ~ParseRaises(raw)
    /\ validate_jsonrpc_message(raw).type = "JSONRPCRequest"
    /\ LET r == HandleRequestStart(validate_jsonrpc_message(raw))
       IN  /\ r.returned
           /\ req' = [req EXCEPT ![t] = raw]
           /\ ret' = [ret EXCEPT ![t] = <<r.response>>]
           /\ trace' = [trace EXCEPT ![t] = r.events \o ReturnResponse(r.response).events]
           /\ pc' = [pc EXCEPT ![t] = ReturnResponse(r.response).pc]
           /\ out' = [out EXCEPT ![t] = ReturnResponse(r.response).out]
    /\ UNCHANGED <<methods, registrations, bg, ingestion, pipeline>>

\* A request whose handler is called: the coroutine awaits it.
RecvRequestAwaits(t, raw) ==
    /\ Arrives(t)
    /\ raw.form # "unreadable"
    /\ ~ParseRaises(raw)
    /\ validate_jsonrpc_message(raw).type = "JSONRPCRequest"
    /\ LET r == HandleRequestStart(validate_jsonrpc_message(raw))
       IN  /\ ~r.returned
           /\ req' = [req EXCEPT ![t] = raw]
           /\ trace' = [trace EXCEPT ![t] = r.events]
           /\ pc' = [pc EXCEPT ![t] = "handler"]
    /\ UNCHANGED <<methods, registrations, bg, ret, out, ingestion, pipeline>>

\* Mutant: handlers are awaited under one lock, in the order of arrival: a
\* coroutine is resumed only when no earlier one still awaits its handler.
AwaitsHandler_Serialized(t) ==
    /\ pc[t] = "handler"
    /\ \A u \in Payloads : u < t => pc[u] \notin {"handler", "hung"}

\* The coroutine of t is suspended at result = await handler(a2a_message).
AwaitsHandler(t) == pc[t] = "handler"

\* Mutant: the handler's value is replaced by a fixed acknowledgement.
HandlerReturns_FixedResult(t, result) ==
    /\ pc[t] = "handler"
    /\ LET response == create_success_response("pong", req[t].id)
       IN  /\ ret' = [ret EXCEPT ![t] = <<response>>]
           /\ pc' = [pc EXCEPT ![t] = ReturnResponse(response).pc]
           /\ out' = [out EXCEPT ![t] = ReturnResponse(response).out]
           /\ trace' = [trace EXCEPT ![t] = @ \o ReturnResponse(response).events]
    /\ UNCHANGED <<methods, registrations, req, bg, ingestion, pipeline>>

\* The awaited handler returns result: _handle_request wraps it and
\* _handle_jsonrpc returns it to the transport.
HandlerReturns(t, result) ==
    /\ AwaitsHandler(t)
    /\ LET response == create_success_response(result, req[t].id)
       IN  /\ ret' = [ret EXCEPT ![t] = <<response>>]
           /\ pc' = [pc EXCEPT ![t] = ReturnResponse(response).pc]
           /\ out' = [out EXCEPT ![t] = ReturnResponse(response).out]
           /\ trace' = [trace EXCEPT ![t] = @ \o ReturnResponse(response).events]
    /\ UNCHANGED <<methods, registrations, req, bg, ingestion, pipeline>>

\* Mutant: no except clause in _handle_request; the failure reaches the
\* except clause of _handle_jsonrpc.
HandlerRaises_Uncaught(t, e) ==
    /\ pc[t] = "handler"
    /\ pc' = [pc EXCEPT ![t] = OnException(e).pc]
    /\ out' = [out EXCEPT ![t] = OnException(e).out]
    /\ trace' = [trace EXCEPT ![t] = @ \o OnException(e).events]
    /\ UNCHANGED <<methods, registrations, req, bg, ret, ingestion, pipeline>>

\* Mutant: a failed handler is called again.
HandlerRaises_Retry(t, e) ==
    /\ pc[t] = "handler"
    /\ trace' = [trace EXCEPT ![t] =
                   @ \o <<EvLog("error", "Error executing method"),
                          EvInvoke(methods[req[t].method], <<req[t].method, req[t].params>>)>>]
    /\ UNCHANGED <<methods, registrations, req, pc, bg, ret, out, ingestion, pipeline>>

\* The awaited handler raises e: the except clause of _handle_request.
HandlerRaises(t, e) ==
    /\ AwaitsHandler(t)
    /\ LET response == InternalError(e, req[t].id)
       IN  /\ ret' = [ret EXCEPT ![t] = <<response>>]
           /\ pc' = [pc EXCEPT ![t] = ReturnResponse(response).pc]
           /\ out' = [out EXCEPT ![t] = ReturnResponse(response).out]
           /\ trace' = [trace EXCEPT ![t] =
                          @ \o <<EvLog("error", "Error executing method")>>
                            \o ReturnResponse(response).events]
    /\ UNCHANGED <<methods, registrations, req, bg, ingestion, pipeline>>

\* The awaited handler will never complete: the coroutine stays suspended.
HandlerHangs(t) ==
    /\ AwaitsHandler(t)
    /\ pc' = [pc EXCEPT ![t] = "hung"]
    /\ UNCHANGED <<methods, registrations, req, bg, ret, out, trace, ingestion, pipeline>>

(* ---------------- _handle_notification ---------------- *)
\* The event loop runs the scheduled task; it ends without calling a handler.
NotificationDropped(t) ==
    /\ bg[t] = "scheduled"
    /\ LET r == HandleNotificationStart(validate_jsonrpc_message(req[t]))
       IN  /\ r.returned
           /\ trace' = [trace EXCEPT ![t] = @ \o r.events]
           /\ bg' = [bg EXCEPT ![t] = "done"]
    /\ UNCHANGED <<methods, registrations, req, pc, ret, out, ingestion, pipeline>>

\* Mutant: the scheduled task validates the notification and ends without
\* calling the handler.
NotificationAwaits_NoCall(t) ==
    /\ bg[t] = "scheduled"
    /\ LET r == HandleNotificationStart(validate_jsonrpc_message(req[t]))
       IN  /\ ~r.returned
           /\ trace' = [trace EXCEPT ![t] = @ \o SubSeq(r.events, 1, 2)]
           /\ bg' = [bg EXCEPT ![t] = "done"]
    /\ UNCHANGED <<methods, registrations, req, pc, ret, out, ingestion, pipeline>>

\* The event loop runs the scheduled task; it calls the handler and awaits it.
NotificationAwaits(t) ==
    /\ bg[t] = "scheduled"
    /\ LET r == HandleNotificationStart(validate_jsonrpc_message(req[t]))
       IN  /\ ~r.returned
           /\ trace' = [trace EXCEPT ![t] = @ \o r.events]
           /\ bg' = [bg EXCEPT ![t] = "handler"]
    /\ UNCHANGED <<methods, registrations, req, pc, ret, out, ingestion, pipeline>>

\* The handler of a notification returns: its result is discarded.
NotificationHandlerReturns(t, result) ==
    /\ bg[t] = "handler"
    /\ bg' = [bg EXCEPT ![t] = "done"]
    /\ UNCHANGED <<methods, registrations, req, pc, ret, out, trace, ingestion, pipeline>>

\* The handler of a notification raises: logged, nothing else.
NotificationHandlerRaises(t, e) ==
    /\ bg[t] = "handler"
    /\ bg' = [bg EXCEPT ![t] = "done"]
    /\ trace' = [trace EXCEPT ![t] =
                   @ \o <<EvLog("error", "Error handling notification")>>]
    /\ UNCHANGED <<methods, registrations, req, pc, ret, out, ingestion, pipeline>>

\* The handler of a notification will never complete.
NotificationHandlerHangs(t) ==
    /\ bg[t] = "handler"
    /\ bg' = [bg EXCEPT ![t] = "hung"]
    /\ UNCHANGED <<methods, registrations, req, pc, ret, out, trace, ingestion, pipeline>>

(* ---------------- specification ---------------- *)
Next ==
    \/ \E n \in Names, h \in Handlers : register_method(n, h)
    \/ \E t \in Payloads : \E raw \in RawPayloads(t) : RecvUnreadable(t, raw)
    \/ \E t \in Payloads : \E raw \in RawPayloads(t) : RecvParseRaises(t, raw)
    \/ \E t \in Payloads : \E raw \in RawPayloads(t) : RecvEnvelopeError(t, raw)
    \/ \E t \in Payloads : \E raw \in RawPayloads(t) : RecvNotification(t, raw)
    \/ \E t \in Payloads : \E raw \in RawPayloads(t) : RecvRequestReturns(t, raw)
    \/ \E t \in Payloads : \E raw \in RawPayloads(t) : RecvRequestAwaits(t, raw)
    \/ \E t \in Payloads, result \in Results : HandlerReturns(t, result)
    \/ \E t \in Payloads, e \in Failures : HandlerRaises(t, e)
    \/ \E t \in Payloads : HandlerHangs(t)
    \/ \E t \in Payloads : NotificationDropped(t)
    \/ \E t \in Payloads : NotificationAwaits(t)
    \/ \E t \in Payloads, result \in Results : NotificationHandlerReturns(t, result)
    \/ \E t \in Payloads, e \in Failures : NotificationHandlerRaises(t, e)
    \/ \E t \in Payloads : NotificationHandlerHangs(t)

Spec == Init /\ [][Next]_vars

\* The event loop runs every task that is ready: a notification task
\* scheduled by create_task gets its turn.
FairSpec ==
    /\ Init /\ [][Next]_vars
    /\ \A t \in Payloads :
          WF_vars(NotificationDropped(t) \/ NotificationAwaits(t))

\* A coroutine whose handler completes is resumed by the event loop.  A
\* handler that hangs never completes.
HandlerFairSpec ==
    /\ Init /\ [][Next]_vars
    /\ \A t \in Payloads :
          WF_vars((\E result \in Results : HandlerReturns(t, result))
                    \/ (\E e \in Failures : HandlerRaises(t, e)))

TypeOK ==
    /\ DOMAIN methods \subseteq Names
    /\ \A n \in DOMAIN methods : methods[n] \in Handlers
    /\ DOMAIN registrations \subseteq Names
    /\ \A n \in DOMAIN registrations : registrations[n] \in Handlers
    /\ \A t \in Payloads :
        /\ req[t] \in RawPayloads(t) \cup {NoPayload}
        /\ pc[t] \in {"idle", "handler", "hung", "done", "raised"}
        /\ bg[t] \in {"none", "scheduled", "handler", "hung", "done"}
        /\ Len(ret[t]) <= 1
        /\ Len(out[t]) <= 1

(* ================ PuzzlePiecesIngestion.insert_data_batch ================ *)
Min(a, b) == IF a < b THEN a ELSE b
Range(s) == {s[k] : k \in 1..Len(s)}

\* pd.isna
isna(x) == x = NaN

\* df.iloc[start:start+size]: the positions of the rows of the batch that
\* starts after row start, in order; the slice stops at the end of the frame.
batch_df(frame, start, size) ==
    [k \in 1..Min(size, Len(frame) - start) |-> start + k]

\* The rows of the batch that are handed to executemany: those with both
\* coordinates present.
batch_data(frame, start, size) ==
    SelectSeq(batch_df(frame, start, size),
              LAMBDA r : ~(isna(frame[r].latitude) \/ isna(frame[r].longitude)))

\* i//batch_size + 1
BatchNumber(start, size) == (start \div size) + 1

\* f"Failed to insert batch {i//batch_size + 1}: {e}"
error_msg(start, size, e) ==
    [text |-> "Failed to insert batch", batch |-> BatchNumber(start, size), e |-> e]

\* The database connection.  executemany writes the rows one by one in the
\* open transaction, and has written the first n of them when it raises;
\* commit makes the open transaction permanent; rollback discards it.
executemany(tx, data, n) == tx \cup {data[k] : k \in 1..n}
commit(db, tx) == db \cup tx
rollback(tx) == {}

\* insert_data_batch was called with a frame and a batch size, on a
\* connection with nothing committed and no open transaction, and is about
\* to enter its loop.
IngestInit ==
    /\ NoTraffic
    /\ NoPipeline
    /\ df \in DataFrames
    /\ batch_size \in 1..MaxBatchSize
    /\ i = 0
    /\ records_inserted = 0
    /\ errors = <<>>
    /\ log = <<>>
    /\ ipc = "loop"
    /\ committed = {}
    /\ pending = {}

\* The loop has a batch to process.
InLoop == ipc = "loop" /\ i < Len(df)

\* No row of the batch has both coordinates: the database is not called.
BatchSkipped ==
    /\ InLoop
    /\ batch_data(df, i, batch_size) = <<>>
    /\ i' = i + batch_size
    /\ UNCHANGED <<df, batch_size, records_inserted, errors, log, ipc,
                   committed, pending, server, pipeline>>

\* executemany and commit succeed.
BatchInserted ==
    /\ InLoop
    /\ batch_data(df, i, batch_size) # <<>>
    /\ LET data == batch_data(df, i, batch_size)
       IN /\ committed' = commit(committed, executemany(pending, data, Len(data)))
          /\ pending' = {}
          /\ records_inserted' = records_inserted + Len(data)
          /\ log' = Append(log, [level |-> "info", text |-> "Inserted batch",
                                 batch |-> BatchNumber(i, batch_size),
                                 records |-> Len(data)])
    /\ i' = i + batch_size
    /\ UNCHANGED <<df, batch_size, errors, ipc, server, pipeline>>

\* executemany raises e after it wrote the first written rows, or commit
\* raises e after executemany wrote them all; the rollback succeeds.
BatchFails(written, e) ==
    /\ InLoop
    /\ batch_data(df, i, batch_size) # <<>>
    /\ written \in 0..Len(batch_data(df, i, batch_size))
    /\ errors' = Append(errors, error_msg(i, batch_size, e))
    /\ log' = Append(log, [level |-> "error", msg |-> error_msg(i, batch_size, e)])
    /\ pending' = rollback(executemany(pending, batch_data(df, i, batch_size), written))
    /\ i' = i + batch_size
    /\ UNCHANGED <<df, batch_size, records_inserted, ipc, committed, server, pipeline>>

\* As BatchFails, but the rollback raises too (a connection that was lost
\* fails every call): the except clause is left by this second exception,
\* which nothing in insert_data_batch catches.
BatchFailsRollbackRaises(written, e) ==
    /\ InLoop
    /\ batch_data(df, i, batch_size) # <<>>
    /\ written \in 0..Len(batch_data(df, i, batch_size))
    /\ errors' = Append(errors, error_msg(i, batch_size, e))
    /\ log' = Append(log, [level |-> "error", msg |-> error_msg(i, batch_size, e)])
    /\ pending' = executemany(pending, batch_data(df, i, batch_size), written)
    /\ ipc' = "raised"
    /\ UNCHANGED <<df, batch_size, i, records_inserted, committed, server, pipeline>>

\* return records_inserted, errors
Return ==
    /\ ipc = "loop"
    /\ i >= Len(df)
    /\ ipc' = "returned"
    /\ UNCHANGED <<df, batch_size, i, records_inserted, errors, log,
                   committed, pending, server, pipeline>>

IngestNext ==
    \/ BatchSkipped
    \/ BatchInserted
    \/ \E written \in 0..MaxBatchSize, e \in DbFailures : BatchFails(written, e)
    \/ \E written \in 0..MaxBatchSize, e \in DbFailures :
          BatchFailsRollbackRaises(written, e)
    \/ Return

IngestSpec == IngestInit /\ [][IngestNext]_vars

IngestTypeOK ==
    /\ df \in DataFrames
    /\ batch_size \in 1..MaxBatchSize
    /\ i \in 0..(MaxRows + MaxBatchSize)
    /\ records_inserted \in 0..MaxRows
    /\ Len(errors) <= MaxRows
    /\ Len(log) <= MaxRows
    /\ ipc \in {"loop", "returned", "raised"}
    /\ committed \subseteq 1..MaxRows
    /\ pending \subseteq 1..MaxRows

(* ================ PuzzlePiecesIngestion.ingest_csv_file ================ *)
\* What a cell of the CSV file may hold.  row_number: an integer (the rows
\* of a file have different ones), nothing, or a number that is no integer;
\* latitude: nothing, a latitude, zero, or a number out of range;
\* longitude: nothing or zero.
RowNumbers == {"7", NaN, "1.5"}
Latitudes == {NaN, "12.5", "0.0", "95.0"}
Longitudes == {NaN, "0.0"}
CsvRows == [row_number : RowNumbers, latitude : Latitudes, longitude : Longitudes]

\* The files: one that pd.read_csv cannot read, and the readable ones, with
\* all the expected columns or without 'source_url', and up to MaxCsvRows
\* rows.
CsvFiles ==
    {NoFile}
    \cup [readable : {TRUE}, columns : {"all", "no source_url"},
          rows : UNION {[1..n -> CsvRows] : n \in 0..MaxCsvRows}]

\* str(e) of what pd.read_csv and clean_data may raise.
ReadFailures == {"No such file or directory"}
CleanFailures == {"cannot safely cast non-equivalent float64 to int64"}

\* A message of result['errors'], in the shape of error_msg.
Msg(text) == [text |-> text, batch |-> 0, e |-> ""]

\* validate_csv_structure: the issues found; the frame is valid when there
\* are none.
validate_csv_structure(frame) ==
    (IF frame.columns # "all"
     THEN <<Msg("Missing required columns")>> ELSE <<>>)
    \o (IF frame.rows = <<>>
        THEN <<Msg("CSV file is empty")>> ELSE <<>>)
    \o (IF \E k \in 1..Len(frame.rows) : frame.rows[k].latitude = "95.0"
        THEN <<Msg("Found invalid latitude values")>> ELSE <<>>)

\* clean_data raises: astype('Int64') refuses a number that is no integer.
CleanRaises(frame) ==
    \E k \in 1..Len(frame.rows) : frame.rows[k].row_number = "1.5"

\* clean_data: the rows that have their critical data, in order.
clean_data(frame) ==
    SelectSeq(frame.rows, LAMBDA r : ~isna(r.row_number))

\* df[col].isnull().sum()
MissingCount(cleaned, col) ==
    Cardinality({k \in 1..Len(cleaned) : isna(cleaned[k][col])})

\* The entry of quality_issues for the missing values of a column:
\* 'WARNING' if missing_count < len(df) * 0.1 else 'ERROR'.
MissingValues(cleaned, col) ==
    IF MissingCount(cleaned, col) > 0
    THEN <<[type |-> "missing_values", column |-> col,
            count |-> MissingCount(cleaned, col),
            severity |-> IF MissingCount(cleaned, col) * 10 < Len(cleaned)
                         THEN "WARNING" ELSE "ERROR"]>>
    ELSE <<>>

\* ((df['latitude'] == 0) & (df['longitude'] == 0)).sum()
ZeroCoords(cleaned) ==
    Cardinality({k \in 1..Len(cleaned) :
                   cleaned[k].latitude = "0.0" /\ cleaned[k].longitude = "0.0"})

\* validate_data_quality: the list of quality issues.
validate_data_quality(cleaned) ==
    MissingValues(cleaned, "latitude")
    \o MissingValues(cleaned, "longitude")
    \o (IF ZeroCoords(cleaned) > 0
        THEN <<[type |-> "zero_coordinates", column |-> "",
                count |-> ZeroCoords(cleaned), severity |-> "WARNING"]>>
        ELSE <<>>)

\* No issue of severity ERROR.
is_quality_ok(quality_issues) ==
    \A k \in 1..Len(quality_issues) : quality_issues[k].severity # "ERROR"

\* Mutant: whatever is not a success is a failure.
IngestionStatus_NoPartial(success, inserted) ==
    IF success THEN "SUCCESS" ELSE "FAILED"

\* 'SUCCESS' if result['success'] else ('PARTIAL' if records_inserted > 0 else 'FAILED')
IngestionStatus(success, inserted) ==
    IF success THEN "SUCCESS" ELSE (IF inserted > 0 THEN "PARTIAL" ELSE "FAILED")

\* The call log_processing_result(operation, status, records_processed,
\* error_message); error_message is the joined messages, none when there
\* are no messages.  written: the INSERT went through; when it raises,
\* log_processing_result logs the failure and returns all the same.
log_processing_result(status, records_processed, error_message, written) ==
    [operation |-> "CSV Ingestion", status |-> status,
     records_processed |-> records_processed,
     error_message |-> error_message, written |-> written]

\* The except clause of ingest_csv_file: the result it leaves.
IngestionFailed(res, e) ==
    [res EXCEPT !.errors = Append(res.errors, [Msg("Ingestion failed") EXCEPT !.e = e]),
                !.success = FALSE]

\* ingest_csv_file is called with a file and a batch size, on a connection
\* with nothing committed and no open transaction.
PipelineInit ==
    /\ NoTraffic
    /\ file \in CsvFiles
    /\ batch_size \in 1..MaxBatchSize
    /\ df = <<>>
    /\ i = 0
    /\ records_inserted = 0
    /\ errors = <<>>
    /\ log = <<>>
    /\ ipc = "none"
    /\ committed = {}
    /\ pending = {}
    /\ csv_result = NoResult
    /\ plog = <<>>
    /\ steps = <<>>
    /\ ppc = "called"

\* read_csv_file raises: the except clause.
ReadFails(e, written) ==
    /\ ppc = "called"
    /\ ~file.readable
    /\ csv_result' = IngestionFailed(csv_result, e)
    /\ plog' = Append(plog, log_processing_result(
                  "FAILED", 0, <<[Msg("Ingestion failed") EXCEPT !.e = e]>>, written))
    /\ steps' = steps \o <<"read_csv_file", "log_processing_result">>
    /\ ppc' = "returned"
    /\ UNCHANGED <<file, ingestion, server>>

\* The structure is not valid: return result.
StructureInvalid ==
    /\ ppc = "called"
    /\ file.readable
    /\ validate_csv_structure(file) # <<>>
    /\ csv_result' = [csv_result EXCEPT !.errors = csv_result.errors \o validate_csv_structure(file),
                                !.success = FALSE]
    /\ steps' = steps \o <<"read_csv_file", "validate_csv_structure">>
    /\ ppc' = "returned"
    /\ UNCHANGED <<file, plog, ingestion, server>>

\* clean_data raises: the except clause.
CleanFails(e, written) ==
    /\ ppc = "called"
    /\ file.readable
    /\ validate_csv_structure(file) = <<>>
    /\ CleanRaises(file)
    /\ csv_result' = IngestionFailed(csv_result, e)
    /\ plog' = Append(plog, log_processing_result(
                  "FAILED", 0, <<[Msg("Ingestion failed") EXCEPT !.e = e]>>, written))
    /\ steps' = steps \o <<"read_csv_file", "validate_csv_structure", "clean_data",
                           "log_processing_result">>
    /\ ppc' = "returned"
    /\ UNCHANGED <<file, ingestion, server>>

\* The frame is read, valid and cleaned, its quality issues are in the
\* result, and insert_data_batch is called with the cleaned frame.
InsertBegins ==
    /\ ppc = "called"
    /\ file.readable
    /\ validate_csv_structure(file) = <<>>
    /\ ~CleanRaises(file)
    /\ csv_result' = [csv_result EXCEPT !.quality_issues = validate_data_quality(clean_data(file))]
    /\ steps' = steps \o <<"read_csv_file", "validate_csv_structure", "clean_data",
                           "validate_data_quality", "insert_data_batch">>
    /\ df' = clean_data(file)
    /\ i' = 0
    /\ records_inserted' = 0
    /\ errors' = <<>>
    /\ ipc' = "loop"
    /\ ppc' = "inserting"
    /\ UNCHANGED <<file, plog, batch_size, log, committed, pending, server>>

\* insert_data_batch has returned: the result is filled in and logged.
InsertReturned(written) ==
    /\ ppc = "inserting"
    /\ ipc = "returned"
    /\ csv_result' = [csv_result EXCEPT
                    !.records_processed = Len(df),
                    !.records_inserted = records_inserted,
                    !.errors = csv_result.errors \o errors,
                    !.success = (Len(errors) = 0 /\ is_quality_ok(csv_result.quality_issues))]
    /\ plog' = Append(plog, log_processing_result(
                  IngestionStatus(csv_result'.success, records_inserted),
                  records_inserted, csv_result'.errors, written))
    /\ steps' = Append(steps, "log_processing_result")
    /\ ppc' = "returned"
    /\ UNCHANGED <<file, ingestion, server>>

\* insert_data_batch has raised e: the except clause.
InsertRaised(e, written) ==
    /\ ppc = "inserting"
    /\ ipc = "raised"
    /\ csv_result' = IngestionFailed(csv_result, e)
    /\ plog' = Append(plog, log_processing_result(
                  "FAILED", 0, <<[Msg("Ingestion failed") EXCEPT !.e = e]>>, written))
    /\ steps' = Append(steps, "log_processing_result")
    /\ ppc' = "returned"
    /\ UNCHANGED <<file, ingestion, server>>

PipelineNext ==
    \/ \E e \in ReadFailures, written \in BOOLEAN : ReadFails(e, written)
    \/ StructureInvalid
    \/ \E e \in CleanFailures, written \in BOOLEAN : CleanFails(e, written)
    \/ InsertBegins
    \/ BatchSkipped
    \/ BatchInserted
    \/ \E written \in 0..MaxBatchSize, e \in DbFailures : BatchFails(written, e)
    \/ \E written \in 0..MaxBatchSize, e \in DbFailures :
          BatchFailsRollbackRaises(written, e)
    \/ Return
    \/ \E written \in BOOLEAN : InsertReturned(written)
    \/ \E e \in DbFailures, written \in BOOLEAN : InsertRaised(e, written)

PipelineSpec == PipelineInit /\ [][PipelineNext]_vars

PipelineTypeOK ==
    /\ file \in CsvFiles
    /\ csv_result.success \in BOOLEAN
    /\ csv_result.records_processed \in 0..MaxCsvRows
    /\ csv_result.records_inserted \in 0..MaxCsvRows
    /\ Len(plog) <= 1
    /\ ppc \in {"called", "inserting", "returned"}
    /\ ipc \in {"none", "loop", "returned", "raised"}
    /\ Len(df) <= MaxCsvRows

(* ======================= properties ======================= *)
\* How the envelope parser classified the payload of t.
IsRequest(t) ==
    /\ req[t].form = "ok"
    /\ validate_jsonrpc_message(req[t]).type = "JSONRPCRequest"

IsNotification(t) ==
    /\ req[t].form = "ok"
    /\ validate_jsonrpc_message(req[t]).type = "JSONRPCNotification"

\* t is handed to _handle_jsonrpc in this step and classified as a request.
RequestArrives(t) == pc[t] = "idle" /\ pc'[t] # "idle" /\ IsRequest(t)'

\* The events of kind k in the trace of t.
EventsOf(t, k) == {ix \in 1..Len(trace[t]) : trace[t][ix][1] = k}
TopLevelLogged(t) ==
    \E ix \in 1..Len(trace[t]) : trace[t][ix] = <<"log", "error", "Error handling request">>

\* C1: a payload classified as a Request gets exactly one response from
\* _handle_jsonrpc: none while its handler is awaited, one (a JSON body with
\* status 200) as soon as the coroutine has ended, never two, and the
\* coroutine never ends by raising.
C1_ExactlyOneResponse ==
    \A t \in Payloads : IsRequest(t) =>
        /\ pc[t] \in {"handler", "hung", "done"}
        /\ Len(out[t]) <= 1
        /\ (pc[t] = "done" <=> Len(out[t]) = 1)
        /\ (Len(out[t]) = 1 =>
              out[t][1].status = 200 /\ Len(out[t][1].body) = 1)

\* A request whose handler returned a value json.dumps rejects, and one
\* whose validator raised: each has its one response.
C1_Witness ==
    \E t1, t2 \in Payloads :
        /\ IsRequest(t1) /\ pc[t1] = "done" /\ Len(out[t1]) = 1
        /\ ret[t1] # <<>> /\ ret[t1][1].result = "not_json"
        /\ IsRequest(t2) /\ pc[t2] = "done" /\ Len(out[t2]) = 1
        /\ req[t2].params = "crash_schema" /\ EventsOf(t2, "validate_a2a_message") # {}

\* C2: a payload classified as a Notification gets status 204 with no body,
\* and nothing else, whatever its detached processing does or has done.
C2_NotificationNoContent ==
    \A t \in Payloads : IsNotification(t) =>
        /\ pc[t] = "done"
        /\ Len(out[t]) = 1
        /\ out[t][1].status = 204
        /\ out[t][1].body = <<>>
        /\ ret[t] = <<>>

\* A notification whose handler raised and one whose validator raised.
C2_Witness ==
    \E t1, t2 \in Payloads :
        /\ IsNotification(t1) /\ bg[t1] = "done"
        /\ EventsOf(t1, "invoke") # {}
        /\ trace[t1][Len(trace[t1])] = <<"log", "error", "Error handling notification">>
        /\ IsNotification(t2) /\ bg[t2] = "done"
        /\ req[t2].params = "crash_schema"
        /\ EventsOf(t2, "validate_a2a_message") # {}
        /\ out[t1] = out[t2]

\* C3: every response _handle_request produces carries the id of the request
\* it was produced for, also with several requests in flight.
C3_ResponseIdIsRequestId ==
    \A t \in Payloads : ret[t] # <<>> =>
        /\ IsRequest(t)
        /\ ret[t][1].id = req[t].id
        /\ ret[t][1].id = IdOf(t)

\* The request that arrived second is answered (its handler raised) while
\* the first is still waiting for its handler.
C3_Witness ==
    \E t1, t2 \in Payloads :
        /\ t1 < t2
        /\ IsRequest(t1) /\ pc[t1] = "handler"
        /\ ret[t2] # <<>> /\ ret[t2][1].code = -32603
        /\ EventsOf(t2, "invoke") # {}
        /\ ret[t2][1].id = IdOf(t2)

\* C4: a request whose method is not a key of the registry when it is handled
\* is answered -32601 with its own id, whatever its params; neither the
\* validator, nor the rule checker, nor a handler is called.
C4_UnknownMethod ==
    [][\A t \in Payloads :
         (RequestArrives(t) /\ req'[t].method \notin DOMAIN methods) =>
            /\ pc'[t] = "done"
            /\ Len(ret'[t]) = 1
            /\ ret'[t][1].kind = "error"
            /\ ret'[t][1].code = -32601
            /\ ret'[t][1].id = req'[t].id
            /\ out'[t] = <<_json_response(ret'[t][1])>>
            /\ trace'[t] = <<>>]_vars

\* An unregistered method with params the validator would have rejected.
C4_Witness ==
    \E t \in Payloads :
        /\ IsRequest(t)
        /\ req[t].params = "bad_schema"
        /\ ret[t] # <<>> /\ ret[t][1].code = -32601
        /\ trace[t] = <<>>

\* C5: a request with a registered method, params the validator accepts and
\* business rules that pass reaches the registered handler with the domain
\* message; when the handler returns a value, _handle_request returns the
\* success object of exactly that value and the request id, and this is the
\* body sent whenever the value can be encoded as JSON.
C5_Success ==
    [][\A t \in Payloads :
         /\ (/\ RequestArrives(t)
             /\ req'[t].method \in DOMAIN methods
             /\ req'[t].params = "valid")
            => /\ pc'[t] = "handler"
               /\ trace'[t][Len(trace'[t])] =
                    <<"invoke", methods[req'[t].method], req'[t].method, "valid">>
         /\ \A r \in Results : HandlerReturns(t, r) =>
               /\ ret'[t] = <<[kind |-> "success", code |-> 0, message |-> Null,
                               data |-> Null, result |-> r, id |-> req[t].id]>>
               /\ (r # "not_json" =>
                     /\ pc'[t] = "done"
                     /\ out'[t] = <<[status |-> 200, body |-> ret'[t]]>>)]_vars

\* A request answered with the success object of its handler's value.
C5_Witness ==
    \E t \in Payloads :
        /\ IsRequest(t) /\ pc[t] = "done"
        /\ EventsOf(t, "invoke") # {}
        /\ ret[t] # <<>> /\ ret[t][1].kind = "success" /\ ret[t][1].result = "pong"
        /\ out[t][1].body = ret[t]

\* C6: a request with a registered method for which the validator returns no
\* domain message, or for which the rule checker returns false, is answered
\* -32602 with its own id, and no handler is invoked.
C6_InvalidParams ==
    [][\A t \in Payloads :
         (/\ RequestArrives(t)
          /\ req'[t].method \in DOMAIN methods
          /\ ~ValidatorRaises(req'[t].method, req'[t].params)
          /\ LET m == validate_a2a_message(req'[t].method, req'[t].params)
             IN  \/ m = NoMessage
                 \/ (m # NoMessage /\ ~RulesRaise(m) /\ ~validate_business_rules(m)))
         => /\ pc'[t] = "done"
            /\ Len(ret'[t]) = 1
            /\ ret'[t][1].kind = "error"
            /\ ret'[t][1].code = -32602
            /\ ret'[t][1].id = req'[t].id
            /\ out'[t] = <<[status |-> 200, body |-> ret'[t]]>>
            /\ \A ix \in 1..Len(trace'[t]) : trace'[t][ix][1] # "invoke"]_vars

\* One request refused by the validator, another by the rule checker.
C6_Witness ==
    \E t1, t2 \in Payloads :
        /\ IsRequest(t1) /\ req[t1].params = "bad_schema"
        /\ trace[t1] = <<<<"validate_a2a_message", req[t1].method, "bad_schema">>>>
        /\ ret[t1] # <<>> /\ ret[t1][1].code = -32602
        /\ IsRequest(t2) /\ req[t2].params = "bad_rule"
        /\ EventsOf(t2, "validate_business_rules") # {}
        /\ ret[t2] # <<>> /\ ret[t2][1].code = -32602

\* The two causes of -32602, as they show in the responses.
SchemaRefused(t) ==
    /\ IsRequest(t) /\ req[t].params = "bad_schema"
    /\ ret[t] # <<>> /\ ret[t][1].code = -32602

RulesRefused(t) ==
    /\ IsRequest(t) /\ req[t].params = "bad_rule"
    /\ ret[t] # <<>> /\ ret[t][1].code = -32602

\* C7, as claimed: the message text of the -32602 error of a business-rule
\* failure differs from the message text of the -32602 error of a schema
\* failure.
C7_MessageTextsDiffer ==
    \A t1, t2 \in Payloads :
        (SchemaRefused(t1) /\ RulesRefused(t2)) =>
            ret[t1][1].message # ret[t2][1].message

\* C7, amended: both errors carry the same message text, "Invalid params";
\* it is their data field that differs and tells the two causes apart.
C7_DataTextsDiffer ==
    \A t1, t2 \in Payloads :
        (SchemaRefused(t1) /\ RulesRefused(t2)) =>
            /\ ret[t1][1].message = "Invalid params"
            /\ ret[t2][1].message = "Invalid params"
            /\ ret[t1][1].data # ret[t2][1].data

\* Both refusals side by side.
C7_Witness ==
    \E t1, t2 \in Payloads :
        /\ SchemaRefused(t1) /\ RulesRefused(t2)
        /\ pc[t1] = "done" /\ pc[t2] = "done"

\* C8: when the handler of a request raises, _handle_request returns -32603
\* with the request id and the failure's description as data; that object is
\* the body sent, and the except clause of _handle_jsonrpc is not involved.
C8_HandlerFailure ==
    [][\A t \in Payloads : \A e \in Failures :
         HandlerRaises(t, e) =>
            /\ ret'[t] = <<[kind |-> "error", code |-> -32603,
                            message |-> "Internal error", data |-> e,
                            result |-> Null, id |-> req[t].id]>>
            /\ req[t].id = IdOf(t)
            /\ pc'[t] = "done"
            /\ out'[t] = <<[status |-> 200, body |-> ret'[t]]>>
            /\ ~TopLevelLogged(t)']_vars

\* A request answered -32603 with its id after its handler raised "bang".
C8_Witness ==
    \E t \in Payloads :
        /\ IsRequest(t) /\ pc[t] = "done"
        /\ EventsOf(t, "invoke") # {}
        /\ out[t][1].body[1].code = -32603
        /\ out[t][1].body[1].data = "bang"
        /\ out[t][1].body[1].id = IdOf(t)

\* A failure reached the except clause of _handle_jsonrpc: the body could not
\* be read, the envelope parser raised, or the response could not be encoded.
ReachedTopLevel(t) ==
    \/ req[t].form \in {"unreadable", "crash"}
    \/ (ret[t] # <<>> /\ ret[t][1].result = "not_json")

\* C9: no payload makes _handle_jsonrpc raise; a failure that reaches its
\* except clause is logged and answered -32603 with a null id.
C9_NothingEscapes ==
    \A t \in Payloads :
        /\ pc[t] # "raised"
        /\ ReachedTopLevel(t) =>
              /\ pc[t] = "done"
              /\ TopLevelLogged(t)
              /\ Len(out[t]) = 1
              /\ out[t][1].status = 200
              /\ out[t][1].body[1].kind = "error"
              /\ out[t][1].body[1].code = -32603
              /\ out[t][1].body[1].id = NullId
        /\ TopLevelLogged(t) => ReachedTopLevel(t)

\* An unreadable body, and a handler value that cannot be encoded.
C9_Witness ==
    \E t1, t2 \in Payloads :
        /\ req[t1].form = "unreadable" /\ pc[t1] = "done"
        /\ out[t1][1].body[1].data = "unreadable body"
        /\ IsRequest(t2) /\ ret[t2] # <<>> /\ ret[t2][1].result = "not_json"
        /\ out[t2][1].body[1].data = "not JSON serializable"

\* C10: the 204 of a notification is returned in the step that schedules its
\* processing, before that processing has done anything; from then on the
\* response stands whatever state the processing is in.
C10_NotificationDetached ==
    [][\A t \in Payloads :
         /\ (out[t] = <<>> /\ IsNotification(t)' /\ pc'[t] # "idle" /\ pc[t] = "idle")
            => /\ out'[t] = <<[status |-> 204, body |-> <<>>]>>
               /\ bg'[t] = "scheduled"
               /\ trace'[t] = <<>>
         /\ bg'[t] \in {"scheduled", "handler", "hung"}
            => out'[t] = <<[status |-> 204, body |-> <<>>]>>]_vars

\* The transport has the 204 of two notifications: the processing of one has
\* not started, the handler of the other will never complete.
C10_Witness ==
    \E t1, t2 \in Payloads :
        /\ out[t1] = <<NoContent>> /\ bg[t1] = "scheduled"
        /\ out[t2] = <<NoContent>> /\ bg[t2] = "hung"

\* C11: a notification whose method is registered, whose params validate and
\* whose business rules pass has its registered handler invoked, with the
\* validated domain message, once the event loop runs its task; no payload
\* ever has a handler invoked twice.
C11_NotificationHandlerInvokedOnce ==
    /\ [](\A t \in Payloads : Cardinality(EventsOf(t, "invoke")) <= 1)
    /\ \A t \in Payloads :
          (/\ IsNotification(t) /\ bg[t] = "scheduled"
           /\ req[t].method \in DOMAIN methods
           /\ req[t].params = "valid")
          ~> (/\ bg[t] # "scheduled"
              /\ Cardinality(EventsOf(t, "invoke")) = 1
              /\ \E g \in Handlers :
                   trace[t][Len(trace[t])] = <<"invoke", g, req[t].method, "valid">>)

\* A notification answered 204 whose handler has been invoked once and has
\* returned.
C11_Witness ==
    \E t \in Payloads :
        /\ IsNotification(t) /\ out[t] = <<NoContent>> /\ bg[t] = "done"
        /\ Cardinality(EventsOf(t, "invoke")) = 1
        /\ trace[t][3] = <<"invoke", methods[req[t].method], "PING", "valid">>

\* A call of a collaborator or of a handler, as opposed to a log record.
IsCall(ev) == ev[1] \in {"validate_a2a_message", "validate_business_rules", "invoke"}

\* C12: for one payload the validator, the rule checker and a handler are
\* each called at most once, and nothing is called again after a failure has
\* been logged: there is no retry.
C12_HandledOnceNoRetry ==
    \A t \in Payloads :
        /\ Cardinality(EventsOf(t, "validate_a2a_message")) <= 1
        /\ Cardinality(EventsOf(t, "validate_business_rules")) <= 1
        /\ Cardinality(EventsOf(t, "invoke")) <= 1
        /\ \A ix, j \in 1..Len(trace[t]) :
              (ix < j /\ trace[t][ix][1] = "log") => ~IsCall(trace[t][j])

\* A request whose handler raised and a notification whose handler raised:
\* one invocation each, the failure logged last.
C12_Witness ==
    \E t1, t2 \in Payloads :
        /\ IsRequest(t1) /\ pc[t1] = "done" /\ ret[t1][1].code = -32603
        /\ Cardinality(EventsOf(t1, "invoke")) = 1
        /\ IsNotification(t2) /\ bg[t2] = "done"
        /\ Cardinality(EventsOf(t2, "invoke")) = 1
        /\ trace[t2][Len(trace[t2])][1] = "log"

\* The outcome of steps 1 to 4 for a request that has been taken up, as it
\* shows in what _handle_request returned or in the handler being called.
Classification(t) ==
    IF EventsOf(t, "invoke") # {} THEN "proceed to invocation"
    ELSE IF ret[t] = <<>> THEN "none"
    ELSE IF ret[t][1].code = -32601 THEN "-32601"
    ELSE IF ret[t][1].code = -32602 /\ ret[t][1].data = "Invalid A2A message parameters"
    THEN "-32602 schema"
    ELSE IF ret[t][1].code = -32602 THEN "-32602 business rule"
    ELSE "-32603"

\* The method of t was a key of the registry when t was handled: the
\* validator is called exactly then.
SawRegistered(t) == EventsOf(t, "validate_a2a_message") # {}

\* C13: two requests with the same method and params that found the same
\* registration of their method are classified alike, whatever was handled
\* before or is in flight beside them; two malformed payloads get the same
\* envelope error.
C13_ClassificationDeterministic ==
    \A t1, t2 \in Payloads :
        /\ (/\ IsRequest(t1) /\ IsRequest(t2)
            /\ req[t1].method = req[t2].method
            /\ req[t1].params = req[t2].params
            /\ SawRegistered(t1) = SawRegistered(t2))
           => Classification(t1) = Classification(t2)
        /\ (req[t1].form = "malformed" /\ req[t2].form = "malformed")
           => (out[t1] = out[t2] /\ trace[t1] = <<>>)

\* Two requests with params that break a business rule, both refused, the
\* first while the second was not yet there.
C13_Witness ==
    \E t1, t2 \in Payloads :
        /\ t1 # t2
        /\ IsRequest(t1) /\ IsRequest(t2)
        /\ req[t1].params = "bad_rule" /\ req[t2].params = "bad_rule"
        /\ Classification(t1) = "-32602 business rule"
        /\ Classification(t2) = "-32602 business rule"

\* A handler is called for t in this step.
Invokes(t) ==
    Cardinality(EventsOf(t, "invoke"))' > Cardinality(EventsOf(t, "invoke"))

\* C14: the registry holds, for every name registered so far, the handler of
\* the latest registration of that name and nothing else (a registration
\* replaces the entry of its name and leaves the other entries alone); a
\* payload that passes validation has the handler of the latest registration
\* of its method called.
C14_LastRegistrationWins ==
    /\ [](methods = registrations)
    /\ [][\A t \in Payloads : Invokes(t) =>
            /\ req'[t].method \in DOMAIN registrations
            /\ trace'[t][Len(trace'[t])] =
                 <<"invoke", registrations[req'[t].method], req'[t].method, "valid">>]_vars

\* "PING" was registered twice: the first request reached h1, the second,
\* after the second registration, reached h2, and "ECHO" kept its handler.
C14_Witness ==
    \E t1, t2 \in Payloads :
        /\ t1 < t2
        /\ Len(trace[t1]) = 3 /\ Len(trace[t2]) = 3
        /\ trace[t1][3] = <<"invoke", "h1", "PING", "valid">>
        /\ trace[t2][3] = <<"invoke", "h2", "PING", "valid">>
        /\ "ECHO" \in DOMAIN methods /\ methods["ECHO"] = "h1"
        /\ methods["PING"] = "h2"

\* C15: a payload for which the envelope parser returns an error object is
\* answered with that object and nothing else happens: no collaborator or
\* handler is called, nothing is logged, no task is created and
\* _handle_request is not entered, whatever the registry holds.
C15_EnvelopeErrorReturnedAsIs ==
    \A t \in Payloads : req[t].form = "malformed" =>
        /\ pc[t] = "done"
        /\ out[t] = <<[status |-> 200, body |-> <<EnvelopeError>>]>>
        /\ trace[t] = <<>>
        /\ bg[t] = "none"
        /\ ret[t] = <<>>

\* A malformed payload answered while "PING" is registered.
C15_Witness ==
    \E t \in Payloads :
        /\ req[t].form = "malformed" /\ pc[t] = "done"
        /\ "PING" \in DOMAIN methods
        /\ out[t][1].body[1].code = -32600

\* C16, as claimed: a request with a registered method whose domain
\* validator raises is answered -32602 with the request id.
C16_ValidatorFailureIsInvalidParams ==
    \A t \in Payloads :
        (/\ IsRequest(t) /\ SawRegistered(t)
         /\ ValidatorRaises(req[t].method, req[t].params))
        => /\ Len(ret[t]) = 1
           /\ ret[t][1].code = -32602
           /\ ret[t][1].id = req[t].id

\* C17: on both paths a handler is called only as the third call for its
\* payload, after the validator was called with the payload's method and
\* params and returned a domain message, and after the rule checker was
\* called with that message and returned true; the method was a key of the
\* registry.  The rule checker is only ever called with a domain message the
\* validator returned.  A notification that fails a check is dropped.
C17_ChecksBeforeInvocation ==
    \A t \in Payloads :
        /\ \A ix \in EventsOf(t, "invoke") :
              /\ ix = 3
              /\ trace[t][1] = <<"validate_a2a_message", req[t].method, req[t].params>>
              /\ trace[t][2] = <<"validate_business_rules", req[t].method, req[t].params>>
              /\ req[t].method \in DOMAIN registrations
              /\ ~ValidatorRaises(req[t].method, req[t].params)
              /\ validate_a2a_message(req[t].method, req[t].params) # NoMessage
              /\ ~RulesRaise(validate_a2a_message(req[t].method, req[t].params))
              /\ validate_business_rules(validate_a2a_message(req[t].method, req[t].params))
              /\ trace[t][3][3] = req[t].method /\ trace[t][3][4] = req[t].params
        /\ \A ix \in EventsOf(t, "validate_business_rules") :
              /\ ix = 2
              /\ trace[t][1] = <<"validate_a2a_message", req[t].method, req[t].params>>
              /\ ~ValidatorRaises(req[t].method, req[t].params)
              /\ validate_a2a_message(req[t].method, req[t].params) # NoMessage
        /\ (IsNotification(t) /\ bg[t] = "done" /\ req[t].params # "valid")
              => EventsOf(t, "invoke") = {}

\* A notification dropped for its business rules next to one whose handler
\* was called.
C17_Witness ==
    \E t1, t2 \in Payloads :
        /\ IsNotification(t1) /\ bg[t1] = "done" /\ req[t1].params = "bad_rule"
        /\ EventsOf(t1, "validate_business_rules") = {2}
        /\ EventsOf(t1, "invoke") = {}
        /\ IsNotification(t2) /\ EventsOf(t2, "invoke") = {3}

\* The handler of t will never complete.
Hung(t) == pc[t] = "hung" \/ bg[t] = "hung"

\* The request u has its response: what _handle_request returned carries the
\* id of u, and it is the body sent whenever it can be encoded.
Answered(u) ==
    IF pc[u] = "done" /\ Len(out[u]) = 1 /\ Len(ret[u]) = 1
    THEN /\ ret[u][1].id = IdOf(u)
         /\ Serializable(ret[u][1]) => out[u][1].body = ret[u]
    ELSE FALSE

\* C18: a handler that never completes holds up its own payload only.  The
\* step in which it hangs changes nothing of any other payload, and while it
\* hangs every other request that awaits its handler goes on to get its own
\* response, with its own id and its handler's value, unless its own handler
\* hangs too.
C18_HungHandlerBlocksOnlyItself ==
    /\ [][\A t, u \in Payloads :
            (t # u /\ ~Hung(t) /\ Hung(t)') =>
               /\ pc'[u] = pc[u] /\ bg'[u] = bg[u] /\ ret'[u] = ret[u]
               /\ out'[u] = out[u] /\ trace'[u] = trace[u]]_vars
    /\ \A u \in Payloads :
          (IsRequest(u) /\ pc[u] = "handler" /\ \E t \in Payloads \ {u} : Hung(t))
          ~> (pc[u] = "hung" \/ (Answered(u) /\ \E t \in Payloads \ {u} : Hung(t)))

\* The first request hangs; the second, which arrived later, has its
\* response.
C18_Witness ==
    \E t, u \in Payloads :
        /\ t < u
        /\ IsRequest(t) /\ pc[t] = "hung"
        /\ IsRequest(u) /\ pc[u] = "done"
        /\ EventsOf(u, "invoke") # {}
        /\ ret[u][1].kind = "success"
        /\ out[u][1].body = ret[u]

\* The payload t gets the response "method not found" in this step.
RefusedAsUnknown(t) ==
    /\ ret[t] = <<>>
    /\ IF Len(ret'[t]) = 1 THEN ret'[t][1].code = -32601 ELSE FALSE

\* C19: the registry only grows.  At any time the health probe answers the
\* marker "healthy" with exactly the names registered so far; no step drops
\* a name; a step that handles a payload leaves the registry as it is; and
\* a request is never refused -32601 for a name that has been registered.
C19_RegistryOnlyGrows ==
    /\ [](/\ _handle_health.status = 200
          /\ _handle_health.body[1].status = "healthy"
          /\ _handle_health.body[1].methods = DOMAIN registrations)
    /\ [][/\ DOMAIN methods \subseteq DOMAIN methods'
          /\ <<req, pc, bg, ret, out, trace>>' # <<req, pc, bg, ret, out, trace>>
                => methods' = methods
          /\ \A t \in Payloads :
                RefusedAsUnknown(t) => req'[t].method \notin DOMAIN registrations]_vars

\* Two names were registered, one of them twice; a request for the first
\* name was refused before it was registered and another was served after.
C19_Witness ==
    /\ DOMAIN registrations = Names
    /\ _handle_health.body[1].methods = Names
    /\ \E t1, t2 \in Payloads :
          /\ t1 < t2
          /\ IsRequest(t1) /\ ret[t1] # <<>> /\ ret[t1][1].code = -32601
          /\ IsRequest(t2) /\ req[t2].method = req[t1].method
          /\ ret[t2] # <<>> /\ ret[t2][1].kind = "success"

\* The rows the log reports as inserted.
RECURSIVE RecordsLogged(_)
RecordsLogged(l) ==
    IF l = <<>> THEN 0
    ELSE (IF Head(l).level = "info" THEN Head(l).records ELSE 0)
         + RecordsLogged(Tail(l))

\* C20: insert_data_batch isolates failures per batch.  Every turn of the
\* loop goes on to the next batch with no transaction left open, and either
\* commits exactly the rows of the batch that have both coordinates and
\* adds their number to records_inserted, with no error message, or
\* commits nothing, adds nothing and appends one error message that names
\* the batch; the call ends by returning, and the records_inserted it
\* returns is the number of rows of the committed batches.
C20_FailuresIsolatedPerBatch ==
    /\ [][InLoop =>
            LET data == batch_data(df, i, batch_size)
            IN /\ ipc' = "loop"
               /\ i' = i + batch_size
               /\ pending' = {}
               /\ \/ /\ committed' = committed \cup Range(data)
                     /\ records_inserted' = records_inserted + Len(data)
                     /\ errors' = errors
                  \/ /\ committed' = committed
                     /\ records_inserted' = records_inserted
                     /\ IF Len(errors') = Len(errors) + 1
                        THEN /\ SubSeq(errors', 1, Len(errors)) = errors
                             /\ errors'[Len(errors')].batch = BatchNumber(i, batch_size)
                        ELSE FALSE]_vars
    /\ [](ipc # "raised")
    /\ [](ipc = "returned" =>
            /\ records_inserted = Cardinality(committed)
            /\ records_inserted = RecordsLogged(log))

\* The steps of ingest_csv_file in the order of its code.
PipelineOrder ==
    <<"read_csv_file", "validate_csv_structure", "clean_data",
      "validate_data_quality", "insert_data_batch", "log_processing_result">>
PlaceOf(step) == CHOOSE k \in 1..Len(PipelineOrder) : PipelineOrder[k] = step

\* How a call of ingest_csv_file that has returned went.
StructureRefused == file.readable /\ validate_csv_structure(file) # <<>>
PipelineRaised ==
    \/ ~file.readable
    \/ (~StructureRefused /\ CleanRaises(file))
    \/ ipc = "raised"
BatchFailed == \E k \in 1..Len(log) : log[k].level = "error"
QualityError == ~is_quality_ok(validate_data_quality(clean_data(file)))

\* The one call of log_processing_result, when there is exactly one.
Logged(status) == IF Len(plog) = 1 THEN plog[1].status = status ELSE FALSE

\* C21: ingest_csv_file takes its steps in one fixed order.  When the
\* structure is refused it returns success = false with the structure
\* issues, and has neither cleaned, nor inserted, nor called
\* log_processing_result.  When the pipeline ran through, success is true
\* exactly when no batch failed and no quality issue has severity ERROR,
\* and the one call of log_processing_result has status SUCCESS iff
\* success, PARTIAL iff not success with records inserted, FAILED iff not
\* success with none.  When a step raised, success is false and the one
\* call of log_processing_result has status FAILED and 0 records.
C21_PipelineOutcome ==
    /\ \A j, k \in 1..Len(steps) : j < k => PlaceOf(steps[j]) < PlaceOf(steps[k])
    /\ ppc = "returned" =>
         /\ StructureRefused =>
               /\ csv_result.success = FALSE
               /\ csv_result.errors = validate_csv_structure(file)
               /\ steps = <<"read_csv_file", "validate_csv_structure">>
               /\ plog = <<>>
               /\ ipc = "none" /\ committed = {} /\ pending = {} /\ df = <<>>
         /\ (~StructureRefused /\ ~PipelineRaised) =>
               /\ steps = PipelineOrder
               /\ csv_result.success <=> (~BatchFailed /\ ~QualityError)
               /\ csv_result.records_inserted = Cardinality(committed)
               /\ Len(plog) = 1
               /\ Logged("SUCCESS") <=> csv_result.success
               /\ Logged("PARTIAL") <=>
                    (~csv_result.success /\ csv_result.records_inserted > 0)
               /\ Logged("FAILED") <=>
                    (~csv_result.success /\ csv_result.records_inserted = 0)
               /\ plog[1].records_processed = csv_result.records_inserted
         /\ PipelineRaised =>
               /\ csv_result.success = FALSE
               /\ Len(plog) = 1
               /\ Logged("FAILED")
               /\ plog[1].records_processed = 0
               /\ steps[Len(steps)] = "log_processing_result"

\* A file of two good rows inserted in two batches, the first committed, the
\* second failed and rolled back: success is false and PARTIAL is logged
\* with one record.
C21_Witness ==
    /\ ppc = "returned"
    /\ ipc = "returned"
    /\ Len(df) = 2 /\ batch_size = 1
    /\ committed = {1}
    /\ ~QualityError
    /\ csv_result.success = FALSE
    /\ Len(csv_result.errors) = 1
    /\ Logged("PARTIAL")
    /\ plog[1].records_processed = 1

====
